---- MODULE Spec2Model ----
(***************************************************************************)
(* A model of src/src/regex.c, the front end of the regex-grammar          *)
(* compiler: parse_regex_spec reads a specification line by line and       *)
(* parse_regex / parse_header / parse_body / parse_operand /               *)
(* parse_operator / memcpy2 fill three static arenas (nonterms, exprPool,  *)
(* termPool).                                                              *)
(*                                                                         *)
(* Characters are one-element strings; "NL" is '\n' and "NUL" is '\0'.     *)
(* A C pointer into the line buffer is a 1-based index into buf, a pointer *)
(* into an arena is the 0-based index / offset the code itself stores.     *)
(* assert() is modelled as compiled in: a failed assertion ends the run.   *)
(* fatal_error and a failed assertion end the process, so every variable   *)
(* but status and pc keeps the value of the last completed step.           *)
(* A write past the end of an array is undefined behaviour: the model      *)
(* records the write in the high-water marks hw and then ends the run in   *)
(* status "Undefined", making no statement about what follows.             *)
(***************************************************************************)
EXTENDS Integers, Sequences, FiniteSets, TLC

VARIABLES
  buf,              \* regexSpecLine: the bytes fgets has stored so far
  pos,              \* the cursor regex / *regexPtr (index into buf)
  pc,               \* position of the run inside parse_regex_spec / parse_regex
  status,           \* "ok", or the fatal error / failed assertion that ended the run
  currentLine,      \* static int currentLine
  nonterms,         \* static NonTerminal nonterms[MAX_NONTERMS]
  currentNonterm,   \* static int currentNonterm
  exprPool,         \* static Expression exprPool[MAX_NESTED_EXPRS]
  freeExprIdx,      \* static int freeExprIdx
  termPool,         \* static char termPool[MAX_TOTAL_TERM_LEN]
  currentTermStart, \* static char *currentTermStart, as an offset into termPool
  nontermIdx,       \* parse_regex: int nontermIdx
  currentExpr,      \* parse_body: Expression *currentExpr, as an index
  currentExprIdx,   \* parse_body: PoolOffset currentExprIdx
  prevExpr,         \* parse_body: Expression *prevExpr, as an index
  op,               \* parse_body: PoolOffset op
  opType,           \* parse_body: OperandType opType
  tok,              \* history: the raw token of the operand parse_operand lexed last
  hw,               \* history: per array, the highest index written so far (-1: none)
  items             \* history: the operands / operators the current line was rendered from

vars == <<buf, pos, pc, status, currentLine, nonterms, currentNonterm, exprPool,
          freeExprIdx, termPool, currentTermStart, nontermIdx, currentExpr,
          currentExprIdx, prevExpr, op, opType, tok, hw, items>>

(***************************************************************************)
(* Configuration constants.  include/regex.h, which sets them, is not part *)
(* of the sources at hand; the values are small ones.                      *)
(***************************************************************************)
MAX_NONTERMS == 5
MAX_NONTERM_NAME == 4
MAX_TOTAL_TERM_LEN == 8
MAX_NESTED_EXPRS == 8
MAX_REGEX_LEN == 32

(***************************************************************************)
(* Bounds of the model.                                                    *)
(***************************************************************************)
MaxLines == 2
MaxOperands == 3
MaxTokLen == 4

NUL == "NUL"
NL == "NL"

Max(a, b) == IF a >= b THEN a ELSE b

SetMin(S) == CHOOSE x \in S : \A y \in S : x <= y

\* isspace() on the characters of the model's alphabet
isspace(c) == c \in {" ", NL}

\* *p for a pointer p into regexSpecLine; a byte fgets never stored is uninitialized
At(p) == IF p \in 1..Len(buf) THEN buf[p] ELSE "UNINIT"

\* while (isspace(*regex)) moveRegexPtr(regex);
RECURSIVE SkipSpace(_)
SkipSpace(p) == IF isspace(At(p)) THEN SkipSpace(p + 1) ELSE p

\* while (isspace(**regexPtr) && **regexPtr != '\n') moveRegexPtr(*regexPtr);
RECURSIVE SkipBlank(_)
SkipBlank(p) == IF isspace(At(p)) /\ At(p) # NL THEN SkipBlank(p + 1) ELSE p

\* while (**regexPtr != '\0' && !isspace(**regexPtr)) moveRegexPtr(*regexPtr);
RECURSIVE ScanToken(_)
ScanToken(p) ==
  IF At(p) # NUL /\ At(p) # "UNINIT" /\ ~isspace(At(p)) THEN ScanToken(p + 1) ELSE p

\* the bytes [a, b) of the line buffer
Bytes(a, b) == [i \in 1..(b - a) |-> At(a + i - 1)]

\* currentColumn advances and retreats with the cursor (moveRegexPtr)
currentColumn == pos - 1

ZeroNonTerminal == [name |-> <<>>, idx |-> 0, complete |-> FALSE, expr |-> 0]
ZeroExpression ==
  [type |-> "NO_OP", op1 |-> 0, op1Type |-> "NOTHING", op2 |-> 0, op2Type |-> "NOTHING"]

Init ==
  /\ buf = <<>>
  /\ pos = 1
  /\ pc = "read"
  /\ status = "ok"
  /\ currentLine = 0
  /\ nonterms = [i \in 0..(MAX_NONTERMS - 1) |-> ZeroNonTerminal]
  /\ currentNonterm = 0
  /\ exprPool = [i \in 0..(MAX_NESTED_EXPRS - 1) |-> ZeroExpression]
  /\ freeExprIdx = 0
  /\ termPool = [i \in 0..(MAX_TOTAL_TERM_LEN - 1) |-> NUL]
  /\ currentTermStart = 0
  /\ nontermIdx = -1
  /\ currentExpr = 0
  /\ currentExprIdx = 0
  /\ prevExpr = 0
  /\ op = -1
  /\ opType = "NOTHING"
  /\ tok = <<>>
  /\ hw = [nonterm |-> -1, name |-> -1, nameBuf |-> -1, expr |-> -1, term |-> -1]
  /\ items = <<>>

(***************************************************************************)
(* parse_regex_spec's loop: fgets stores the line and a '\0' over the      *)
(* front of the buffer; the bytes behind keep what earlier lines left.     *)
(***************************************************************************)
Stored(line) ==
  [i \in 1..Max(Len(line) + 1, Len(buf)) |->
     IF i <= Len(line) THEN line[i] ELSE IF i = Len(line) + 1 THEN NUL ELSE buf[i]]

ReadLine(inputs) ==
  /\ pc = "read"
  /\ status = "ok"
  /\ currentLine < MaxLines
  /\ \E inp \in inputs :
       /\ Len(inp.line) < MAX_REGEX_LEN
       /\ buf' = Stored(inp.line)
       /\ items' = inp.items
  /\ currentLine' = currentLine + 1
  /\ pos' = 1
  /\ pc' = "line"
  /\ UNCHANGED <<status, nonterms, currentNonterm, exprPool, freeExprIdx, termPool,
                 currentTermStart, nontermIdx, currentExpr, currentExprIdx, prevExpr,
                 op, opType, tok, hw>>

\* the head of parse_regex: leading whitespace, blank lines and comments
ParseRegex ==
  /\ pc = "line"
  /\ status = "ok"
  /\ pos' = SkipSpace(pos)
  /\ pc' = IF At(SkipSpace(pos)) = NUL \/ At(SkipSpace(pos)) = "!" THEN "read" ELSE "header"
  /\ UNCHANGED <<buf, status, currentLine, nonterms, currentNonterm, exprPool,
                 freeExprIdx, termPool, currentTermStart, nontermIdx, currentExpr,
                 currentExprIdx, prevExpr, op, opType, tok, hw, items>>

\* fgets returns NULL: parse_regex_spec returns currentNonterm
EndOfInput ==
  /\ pc = "read"
  /\ status = "ok"
  /\ pc' = "done"
  /\ UNCHANGED <<buf, pos, status, currentLine, nonterms, currentNonterm, exprPool,
                 freeExprIdx, termPool, currentTermStart, nontermIdx, currentExpr,
                 currentExprIdx, prevExpr, op, opType, tok, hw, items>>

(***************************************************************************)
(* parse_header                                                            *)
(***************************************************************************)
\* HeaderLookup without the reuse of an incomplete entry: every accepted header
\* takes a new slot
HeaderLookupNoReuse(name) ==
  LET same == {i \in 0..(currentNonterm - 1) : nonterms[i].name = name} IN
    IF same # {} /\ nonterms[SetMin(same)].complete THEN [dup |-> TRUE, idx |-> -1]
    ELSE [dup |-> FALSE, idx |-> -1]

\* HeaderLookup without the test of the complete flag: a defined name is reused
HeaderLookupNoDupCheck(name) ==
  LET same == {i \in 0..(currentNonterm - 1) : nonterms[i].name = name} IN
    IF same = {} THEN [dup |-> FALSE, idx |-> -1]
    ELSE [dup |-> FALSE, idx |-> SetMin(same)]

\* the lookup loop: the first entry with the same name decides
HeaderLookup(name) ==
  LET same == {i \in 0..(currentNonterm - 1) : nonterms[i].name = name} IN
    IF same = {} THEN [dup |-> FALSE, idx |-> -1]
    ELSE IF nonterms[SetMin(same)].complete THEN [dup |-> TRUE, idx |-> -1]
    ELSE [dup |-> FALSE, idx |-> SetMin(same)]

\* assert(nontermNameSize <= MAX_NONTERM_NAME)
HeaderNameFits(size) == size <= MAX_NONTERM_NAME

\* sizeof nonterms[i].name: the spec's "bounded string" of max name length
NameCapacity == MAX_NONTERM_NAME

\* the outcome of parse_header on the line in buf at the cursor pos
parse_header ==
  LET start == pos
      e     == ScanToken(start + 1)
      size  == e - start
      name  == Bytes(start, e)
      look  == HeaderLookup(name)
      fresh == look.idx = -1
      idx   == IF fresh THEN currentNonterm ELSE look.idx
      cnt   == IF fresh THEN currentNonterm + 1 ELSE currentNonterm
      hwBuf == [hw EXCEPT !.nameBuf = Max(@, size)]
      hwNt  == [hwBuf EXCEPT !.nonterm = Max(@, idx), !.name = Max(@, size)]
      nts   == [nonterms EXCEPT ![idx].name = name, ![idx].idx = idx]
      p1    == SkipSpace(e)
      p3    == SkipBlank(p1 + 2)
      out(err, p, i, c, n, h) ==
        [err |-> err, pos |-> p, idx |-> i, currentNonterm |-> c, nonterms |-> n, hw |-> h]
  IN
    IF At(start) # "$"
      THEN out("MissingNonTerminalMarker", start, -1, currentNonterm, nonterms, hw)
    ELSE IF e = start + 1
      THEN out("EmptyName", e, -1, currentNonterm, nonterms, hw)
    ELSE IF At(e) = NUL \/ At(e) = NL
      THEN out("MissingAssignment", e, -1, currentNonterm, nonterms, hw)
    ELSE IF ~HeaderNameFits(size)
      THEN out("NameTooLong", e, -1, currentNonterm, nonterms, hw)
    ELSE IF size >= MAX_NONTERM_NAME   \* nontermName[nontermNameSize] = '\0' past the array
      THEN out("Undefined", e, -1, currentNonterm, nonterms, hwBuf)
    ELSE IF look.dup
      THEN out("DuplicateDefinition", e, -1, currentNonterm, nonterms, hwBuf)
    ELSE IF ~(cnt < MAX_NONTERMS)
      THEN out("CapacityExceeded", e, idx, cnt, nonterms, hwBuf)
    ELSE IF At(p1) # ":"
      THEN out("MissingAssignment", p1, idx, cnt, nts, hwNt)
    ELSE IF At(p1 + 1) # "="
      THEN out("MissingAssignment", p1 + 1, idx, cnt, nts, hwNt)
    ELSE IF At(p3) = NUL \/ At(p3) = NL
      THEN out("MissingBody", p3, idx, cnt, nts, hwNt)
    ELSE out("ok", p3, idx, cnt, nts, hwNt)

\* parse_regex: int nontermIdx = parse_header(&regex);
ParseHeader ==
  /\ pc = "header"
  /\ status = "ok"
  /\ LET h == parse_header IN
       /\ status' = h.err
       /\ pc' = IF h.err = "ok" THEN "body" ELSE "halt"
       /\ pos' = h.pos
       /\ nontermIdx' = h.idx
       /\ currentNonterm' = h.currentNonterm
       /\ nonterms' = h.nonterms
       /\ hw' = h.hw
  /\ UNCHANGED <<buf, currentLine, exprPool, freeExprIdx, termPool, currentTermStart,
                 currentExpr, currentExprIdx, prevExpr, op, opType, tok, items>>

(***************************************************************************)
(* parse_operator                                                          *)
(***************************************************************************)
parse_operator(p) ==
  LET q == SkipBlank(p) IN
    IF At(q) = NL \/ At(q) = NUL THEN [type |-> "NO_OP", pos |-> q]
    ELSE IF At(q) = "|" THEN [type |-> "OR", pos |-> q + 1]
    ELSE IF At(q) = "*" THEN [type |-> "ZERO_OR_MORE", pos |-> q + 1]
    ELSE [type |-> "AND", pos |-> q]

(***************************************************************************)
(* memcpy2(dest, src, numBytes, '@', "_@|*$", " @|*$").  out is the bytes   *)
(* stored at dest, dest+1, ... in order; copied is the value returned.     *)
(* The loop counts numBytes iterations, and an iteration that meets the    *)
(* escape character consumes two source bytes.  The replacement character  *)
(* c (toPut's entry, or the byte itself after a warning) is computed and   *)
(* never used: the byte stored is *src, the byte after the escape          *)
(* character.                                                              *)
(***************************************************************************)
RECURSIVE memcpy2(_, _, _, _)
memcpy2(src, numBytes, copied, out) ==
  IF numBytes - 1 < 0 THEN [err |-> "ok", out |-> out, copied |-> copied]
  ELSE IF At(src) = "UNINIT" THEN [err |-> "Undefined", out |-> out, copied |-> copied]
  ELSE IF At(src) = "@" THEN
    IF numBytes - 1 <= 0
      THEN [err |-> "IncompleteEscapeSequence", out |-> out, copied |-> copied]
    ELSE IF At(src + 1) = "UNINIT"
      THEN [err |-> "Undefined", out |-> out, copied |-> copied]
    ELSE memcpy2(src + 2, numBytes - 1, copied - 1, Append(out, At(src + 1)))
  ELSE memcpy2(src + 1, numBytes - 1, copied, Append(out, At(src)))

(***************************************************************************)
(* parse_operand                                                           *)
(***************************************************************************)
\* the suffix-star split: the end of the token scanned up to e
SplitStar(e) == IF At(e - 1) = "*" /\ At(e - 2) # "@" THEN e - 1 ELSE e

\* memcmp(nonterms[i].name, operandStart, operandNameSize) == 0: the stored name,
\* which zero bytes follow, agrees with the token on the token's length
SameBytes(stored, token) ==
  /\ Len(stored) >= Len(token)
  /\ SubSeq(stored, 1, Len(token)) = token

\* the lookup loop of parse_operand: the first entry memcmp accepts, or -1
OperandLookup(token) ==
  LET hit == {i \in 0..(currentNonterm - 1) : SameBytes(nonterms[i].name, token)} IN
    IF hit = {} THEN -1 ELSE SetMin(hit)

\* assert(currentTermStart+operandNameSize-termPool <= MAX_TOTAL_TERM_LEN)
TermFits(size) == currentTermStart + size <= MAX_TOTAL_TERM_LEN

\* the outcome of parse_operand with the cursor at p
parse_operand(p) ==
  LET start == SkipBlank(p)
      e     == SplitStar(ScanToken(start))
      size  == e - start
      token == Bytes(start, e)
      out(err, ty, r, q, c, n, t, cts, h) ==
        [err |-> err, type |-> ty, res |-> r, pos |-> q, tok |-> token,
         currentNonterm |-> c, nonterms |-> n, termPool |-> t,
         currentTermStart |-> cts, hw |-> h]
      same(err, ty, q) ==
        out(err, ty, op, q, currentNonterm, nonterms, termPool, currentTermStart, hw)
      \* the non-terminal branch
      found == OperandLookup(token)
      idx   == IF found = -1 THEN currentNonterm ELSE found
      cnt   == IF found = -1 THEN currentNonterm + 1 ELSE currentNonterm
      nts   == [nonterms EXCEPT ![idx].name = token, ![idx].complete = FALSE,
                                ![idx].idx = idx]
      hwNt  == [hw EXCEPT !.nonterm = Max(@, idx), !.name = Max(@, size)]
      \* the terminal branch
      m     == memcpy2(start, size, size, <<>>)
      last  == currentTermStart + Len(m.out) - 1
      pool1 == [i \in DOMAIN termPool |->
                  IF i \in currentTermStart..last THEN m.out[i - currentTermStart + 1]
                  ELSE termPool[i]]
      nulAt == currentTermStart + m.copied
      pool2 == [i \in DOMAIN termPool |-> IF i = nulAt THEN NUL ELSE pool1[i]]
      hwCp  == [hw EXCEPT !.term = Max(@, last)]
      hwNul == [hwCp EXCEPT !.term = Max(@, nulAt)]
  IN
    IF At(start) = NUL \/ At(start) = NL THEN same("ok", "NOTHING", start)
    ELSE IF At(start) = "|" \/ At(start) = "*"
      THEN same("OperatorWithoutOperand", "NOTHING", start)
    ELSE IF At(start) = "$" THEN
      IF size = 1 THEN same("EmptyName", "NOTHING", e)
      ELSE IF found # -1
        THEN out("ok", "NON_TERMINAL", found, e, currentNonterm, nonterms, termPool,
                 currentTermStart, hw)
      ELSE IF ~(cnt < MAX_NONTERMS)
        THEN out("CapacityExceeded", "NOTHING", op, e, cnt, nonterms, termPool,
                 currentTermStart, hw)
      ELSE IF size >= NameCapacity   \* name[operandNameSize] = '\0' past the array
        THEN out("Undefined", "NOTHING", op, e, cnt, nts, termPool, currentTermStart, hwNt)
      ELSE out("ok", "NON_TERMINAL", idx, e, cnt, nts, termPool, currentTermStart, hwNt)
    ELSE
      IF ~TermFits(size) THEN same("CapacityExceeded", "NOTHING", e)
      ELSE IF m.err # "ok"
        THEN out(m.err, "NOTHING", op, e, currentNonterm, nonterms, pool1,
                 currentTermStart, hwCp)
      ELSE IF nulAt >= MAX_TOTAL_TERM_LEN   \* currentTermStart[size] = '\0' past the pool
        THEN out("Undefined", "NOTHING", op, e, currentNonterm, nonterms, pool1,
                 currentTermStart, hwNul)
      ELSE out("ok", "TERMINAL", currentTermStart, e, currentNonterm, nonterms, pool2,
               currentTermStart + size + 1, hwNul)

(***************************************************************************)
(* parse_body                                                              *)
(***************************************************************************)
\* assert(freeExprIdx < MAX_NESTED_EXPRS)
ExprFits(free) == free < MAX_NESTED_EXPRS

\* the first node of the body, up to the loop
BodyStart ==
  /\ pc = "body"
  /\ status = "ok"
  /\ IF ~ExprFits(freeExprIdx)
       THEN /\ status' = "CapacityExceeded"
            /\ pc' = "halt"
            /\ UNCHANGED <<currentExpr, currentExprIdx, prevExpr, nonterms, freeExprIdx,
                           op, opType, hw>>
       ELSE /\ currentExpr' = freeExprIdx
            /\ currentExprIdx' = freeExprIdx
            /\ prevExpr' = freeExprIdx
            /\ nonterms' = [nonterms EXCEPT ![nontermIdx].expr = freeExprIdx]
            /\ hw' = [hw EXCEPT !.nonterm = Max(@, nontermIdx)]
            /\ freeExprIdx' = freeExprIdx + 1
            /\ op' = -1
            /\ opType' = "NOTHING"
            /\ pc' = "loop"
            /\ UNCHANGED status
  /\ UNCHANGED <<buf, pos, currentLine, currentNonterm, exprPool, termPool,
                 currentTermStart, nontermIdx, tok, items>>

\* Splice without the redirection of prevExpr to the wrapping node
SpliceNoRedirect(pool, wrapType) ==
  LET closed == [pool EXCEPT ![currentExpr].op2 = -1, ![currentExpr].op2Type = "NOTHING"]
  IN [closed EXCEPT ![freeExprIdx].type = wrapType,
                    ![freeExprIdx].op1 = currentExprIdx,
                    ![freeExprIdx].op1Type = "NESTED_EXPRESSION"]

\* the star splice: the starred node is closed and wrapped by a new node, which
\* the node before it is redirected to
Splice(pool, wrapType) ==
  LET closed  == [pool EXCEPT ![currentExpr].op2 = -1, ![currentExpr].op2Type = "NOTHING"]
      wrapped == [closed EXCEPT ![freeExprIdx].type = wrapType,
                                ![freeExprIdx].op1 = currentExprIdx,
                                ![freeExprIdx].op1Type = "NESTED_EXPRESSION"]
  IN [wrapped EXCEPT ![prevExpr].op2 = freeExprIdx,
                     ![prevExpr].op2Type = "NESTED_EXPRESSION"]

\* one iteration of the loop of parse_body, after parse_operand returned operand r
body_iteration(r) ==
  LET o1     == parse_operator(r.pos)
      filled == [exprPool EXCEPT ![currentExpr].type = o1.type,
                                 ![currentExpr].op1 = r.res,
                                 ![currentExpr].op1Type = r.type]
      star   == o1.type = "ZERO_OR_MORE"
      o2     == parse_operator(o1.pos)
      pool   == IF star THEN Splice(filled, o2.type) ELSE filled
      cur    == IF star THEN freeExprIdx ELSE currentExpr
      free   == IF star THEN freeExprIdx + 1 ELSE freeExprIdx
      q      == IF star THEN o2.pos ELSE o1.pos
      linked == [pool EXCEPT ![cur].op2 = free, ![cur].op2Type = "NESTED_EXPRESSION"]
      out(err, e, p, c, ci, pr, f, h) ==
        [err |-> err, exprPool |-> e, pos |-> p, currentExpr |-> c,
         currentExprIdx |-> ci, prevExpr |-> pr, freeExprIdx |-> f, hw |-> h]
  IN
    IF star /\ ~ExprFits(freeExprIdx)
      THEN out("CapacityExceeded",
               [filled EXCEPT ![currentExpr].op2 = -1, ![currentExpr].op2Type = "NOTHING"],
               o1.pos, currentExpr, currentExprIdx, prevExpr, freeExprIdx,
               [hw EXCEPT !.expr = Max(@, currentExpr)])
    ELSE IF ~ExprFits(free)
      THEN out("CapacityExceeded", pool, q, cur, currentExprIdx, prevExpr, free,
               [hw EXCEPT !.expr = Max(@, cur)])
    ELSE out("ok", linked, q, free, free, cur, free + 1,
             [hw EXCEPT !.expr = Max(@, cur)])

BodyIter ==
  /\ pc = "loop"
  /\ status = "ok"
  /\ LET r == parse_operand(pos) IN
       /\ ~(r.err = "ok" /\ r.type = "NOTHING")
       /\ nonterms' = r.nonterms
       /\ currentNonterm' = r.currentNonterm
       /\ termPool' = r.termPool
       /\ currentTermStart' = r.currentTermStart
       /\ tok' = r.tok
       /\ IF r.err # "ok"
            THEN /\ status' = r.err
                 /\ pc' = "halt"
                 /\ pos' = r.pos
                 /\ hw' = r.hw
                 /\ UNCHANGED <<exprPool, freeExprIdx, currentExpr, currentExprIdx,
                                prevExpr, op, opType>>
            ELSE LET b == body_iteration(r) IN
                 /\ status' = b.err
                 /\ pc' = IF b.err = "ok" THEN "loop" ELSE "halt"
                 /\ pos' = b.pos
                 /\ op' = r.res
                 /\ opType' = r.type
                 /\ exprPool' = b.exprPool
                 /\ freeExprIdx' = b.freeExprIdx
                 /\ currentExpr' = b.currentExpr
                 /\ currentExprIdx' = b.currentExprIdx
                 /\ prevExpr' = b.prevExpr
                 /\ hw' = [r.hw EXCEPT !.expr = b.hw.expr]
  /\ UNCHANGED <<buf, currentLine, nontermIdx, items>>

\* assert((prevExpr->type == NO_OP || prevExpr->type == ZERO_OR_MORE) && ...)
LastIsClosed == exprPool[prevExpr].type \in {"NO_OP", "ZERO_OR_MORE"}

\* parse_operand returned NOTHING: the end-of-body check and the reclaim of the
\* trailing node
BodyEnd ==
  /\ pc = "loop"
  /\ status = "ok"
  /\ LET r == parse_operand(pos) IN
       /\ r.err = "ok" /\ r.type = "NOTHING"
       /\ pos' = r.pos
       /\ opType' = "NOTHING"
  /\ IF ~LastIsClosed
       THEN /\ status' = "InternalInconsistency"
            /\ pc' = "halt"
            /\ UNCHANGED <<exprPool, freeExprIdx, hw>>
       ELSE /\ freeExprIdx' = freeExprIdx - 1
            /\ exprPool' = [exprPool EXCEPT ![prevExpr].op2 = -1,
                                            ![prevExpr].op2Type = "NOTHING"]
            /\ hw' = [hw EXCEPT !.expr = Max(@, prevExpr)]
            /\ pc' = "complete"
            /\ UNCHANGED status
  /\ UNCHANGED <<buf, currentLine, nonterms, currentNonterm, termPool, currentTermStart,
                 nontermIdx, currentExpr, currentExprIdx, prevExpr, op, tok, items>>

\* parse_regex: nonterms[nontermIdx].complete = TRUE;
MarkComplete ==
  /\ pc = "complete"
  /\ status = "ok"
  /\ nonterms' = [nonterms EXCEPT ![nontermIdx].complete = TRUE]
  /\ hw' = [hw EXCEPT !.nonterm = Max(@, nontermIdx)]
  /\ pc' = "read"
  /\ UNCHANGED <<buf, pos, status, currentLine, currentNonterm, exprPool, freeExprIdx,
                 termPool, currentTermStart, nontermIdx, currentExpr, currentExprIdx,
                 prevExpr, op, opType, tok, items>>

(***************************************************************************)
(* Inputs.  A line is the sequence of characters fgets reads, its '\n'     *)
(* included.  The lines of a definition body are rendered from items: one  *)
(* item per operand, with the stars that follow it and the connective      *)
(* after it ("NO_OP" for nothing more on the line).                        *)
(***************************************************************************)
RECURSIVE Flatten(_)
Flatten(ss) == IF ss = <<>> THEN <<>> ELSE Head(ss) \o Flatten(Tail(ss))

StarText(s) ==
  CASE s = "none" -> <<>>
    [] s = "tight" -> <<"*">>
    [] s = "spaced" -> <<" ", "*">>
    [] s = "double" -> <<"*", "*">>

ConnText(c) ==
  CASE c = "AND" -> <<" ">>
    [] c = "OR" -> <<" ", "|", " ">>
    [] c = "NO_OP" -> <<>>

RenderItem(it) == it.opd \o StarText(it.star) \o ConnText(it.conn)

RenderBody(its) == Flatten([i \in 1..Len(its) |-> RenderItem(its[i])])

\* "$Name := body\n"
Definition(name, body) == name \o <<" ", ":", "=", " ">> \o body \o <<NL>>

\* the operands of a body alternate between a terminal and a reference to $B
TreeOperand(first, i) ==
  IF (i + first) % 2 = 1 THEN <<"a">> ELSE <<"$", "B">>

Stars == {"none", "tight", "spaced", "double"}

\* every connective but the last joins two operands; a last "OR" is a trailing bar
TreeBodies ==
  UNION {{[i \in 1..n |-> [opd |-> TreeOperand(first, i), star |-> st[i],
                           conn |-> IF i < n THEN cn[i] ELSE last]] :
            first \in 0..1, st \in [1..n -> Stars],
            cn \in [1..(n - 1) -> {"AND", "OR"}], last \in {"NO_OP", "OR"}} :
         n \in 1..MaxOperands}

TreeInputs ==
  {[line |-> Definition(<<"$", "A">>, RenderBody(its)), items |-> its] : its \in TreeBodies}

PlainItem(opd) == <<[opd |-> opd, star |-> "none", conn |-> "NO_OP"]>>

\* what comes before the definition under test: a comment, or a definition of $B
PreludeInputs ==
  {[line |-> <<" ", "!", "a", NL>>, items |-> <<>>],
   [line |-> Definition(<<"$", "B">>, <<"b">>), items |-> PlainItem(<<"b">>)]}

\* the last line read is the definition under test
ReadTree ==
  IF currentLine + 1 < MaxLines THEN ReadLine(PreludeInputs) ELSE ReadLine(TreeInputs)

NextTree ==
  \/ ReadTree
  \/ ParseRegex
  \/ ParseHeader
  \/ BodyStart
  \/ BodyIter
  \/ BodyEnd
  \/ MarkComplete
  \/ EndOfInput

SpecTree == Init /\ [][NextTree]_vars

(***************************************************************************)
(* Lines about names: headers and references whose names are prefixes of   *)
(* one another, a name as long as the bound allows and a longer one, a     *)
(* header without a definition.                                            *)
(***************************************************************************)
Raw(line) == [line |-> line, items |-> <<>>]

HeaderNames == {<<"$", "A">>, <<"$", "B">>, <<"$", "A", "B">>}

NameOperands ==
  {<<"x">>, <<"$", "A">>, <<"$", "B">>, <<"$", "A", "B">>, <<"$", "A", "B", "C", "D">>}

NameInputs ==
  {Raw(Definition(h, o)) : h \in HeaderNames, o \in NameOperands}
  \cup {Raw(Definition(<<"$", "A", "B", "C">>, <<"x">>)),
        Raw(Definition(<<"$", "A", "B", "C", "D">>, <<"x">>)),
        Raw(<<"$", "A", NL>>),
        Raw(<<"$", "A", " ", "x", NL>>)}

NextNames ==
  \/ ReadLine(NameInputs)
  \/ ParseRegex
  \/ ParseHeader
  \/ BodyStart
  \/ BodyIter
  \/ BodyEnd
  \/ MarkComplete
  \/ EndOfInput

SpecNames == Init /\ [][NextNames]_vars

(***************************************************************************)
(* Lines about terminals: every token of up to MaxTokLen characters over   *)
(* the escape character and the characters it escapes, alone on the line   *)
(* or followed by a second token.                                          *)
(***************************************************************************)
TokenChars == {"a", "@", "_", "*", "|", "$"}

Tokens == UNION {[1..n -> TokenChars] : n \in 1..MaxTokLen}

SecondTokens == {<<>>, <<" ", "@", "_">>, <<" ", "a", "a", "a">>, <<" ", "a", "a", "a", "a">>}

TermInputs ==
  {Raw(Definition(<<"$", "A">>, t \o u)) : t \in Tokens, u \in SecondTokens}

\* the last line read is the definition under test
ReadTerm ==
  IF currentLine + 1 < MaxLines THEN ReadLine(PreludeInputs) ELSE ReadLine(TermInputs)

NextTerm ==
  \/ ReadTerm
  \/ ParseRegex
  \/ ParseHeader
  \/ BodyStart
  \/ BodyIter
  \/ BodyEnd
  \/ MarkComplete
  \/ EndOfInput

SpecTerm == Init /\ [][NextTerm]_vars

\* every line of the three families, in any order
Next ==
  \/ ReadLine(PreludeInputs \cup TreeInputs \cup NameInputs \cup TermInputs)
  \/ ParseRegex
  \/ ParseHeader
  \/ BodyStart
  \/ BodyIter
  \/ BodyEnd
  \/ MarkComplete
  \/ EndOfInput

Spec == Init /\ [][Next]_vars

(***************************************************************************)
(* Reading the arenas: the tree below a node, with every reference         *)
(* replaced by what it refers to.  fuel bounds the depth, so that a cycle  *)
(* shows as a "TooDeep" leaf.                                              *)
(***************************************************************************)
\* the null-terminated bytes of the terminal pool from offset off
RECURSIVE TermString(_)
TermString(off) ==
  IF off \notin DOMAIN termPool \/ termPool[off] = NUL THEN <<>>
  ELSE <<termPool[off]>> \o TermString(off + 1)

Absent == [kind |-> "Absent"]

RECURSIVE NodeView(_, _)
OperandView(ty, v, fuel) ==
  CASE ty = "NOTHING" -> Absent
    [] ty = "TERMINAL" -> [kind |-> "Terminal", text |-> TermString(v)]
    [] ty = "NON_TERMINAL" -> [kind |-> "NonTerminal", text |-> nonterms[v].name]
    [] ty = "NESTED_EXPRESSION" ->
         IF fuel = 0 THEN [kind |-> "TooDeep"]
         ELSE [kind |-> "Nested", node |-> NodeView(v, fuel - 1)]

NodeView(i, fuel) ==
  [op    |-> exprPool[i].type,
   left  |-> OperandView(exprPool[i].op1Type, exprPool[i].op1, fuel),
   right |-> OperandView(exprPool[i].op2Type, exprPool[i].op2, fuel)]

\* deep enough for the tree of any body of the model
Fuel == 2 * MaxOperands + 2

\* the nodes reachable from node i in one or more steps
Children(i) ==
  {exprPool[i].op1 : x \in {1} \cap (IF exprPool[i].op1Type = "NESTED_EXPRESSION" THEN {1} ELSE {})}
  \cup
  {exprPool[i].op2 : x \in {1} \cap (IF exprPool[i].op2Type = "NESTED_EXPRESSION" THEN {1} ELSE {})}

RECURSIVE Below(_, _)
Below(S, n) ==
  IF n = 0 THEN S ELSE Below(S \cup UNION {Children(i) : i \in S}, n - 1)

Reachable(i) == Below(Children(i), MAX_NESTED_EXPRS)

\* the line under test was accepted: parse_body has returned for it
Accepted == status = "ok" /\ pc \in {"complete", "read", "done"} /\ items # <<>>

Root == nonterms[nontermIdx].expr

(***************************************************************************)
(* The reference tree of C1, from the items the line was rendered from.    *)
(***************************************************************************)
RefOperand(it) ==
  [kind |-> IF it.opd[1] = "$" THEN "NonTerminal" ELSE "Terminal", text |-> it.opd]

RefLeft(it) ==
  IF it.star = "none" THEN RefOperand(it)
  ELSE [kind |-> "Nested",
        node |-> [op |-> "ZERO_OR_MORE", left |-> RefOperand(it), right |-> Absent]]

RECURSIVE RefLink(_, _)
RefLink(its, i) ==
  [op    |-> its[i].conn,
   left  |-> RefLeft(its[i]),
   right |-> IF i = Len(its) THEN Absent
             ELSE [kind |-> "Nested", node |-> RefLink(its, i + 1)]]

\* the bodies C1 is about
FirstUnstarred(its) == its[1].star = "none"
NoDoubleStar(its) == \A i \in 1..Len(its) : its[i].star # "double"

\* C1: for every accepted body whose first operand is not starred and in which
\* no star follows a star, the tree at the non-terminal's root expression is the
\* right-associative reference tree: link i has the i-th operand (or, when it is
\* starred, a nested (operand ZERO_OR_MORE Absent) node) on the left, the
\* connective that follows it as operator, and the next link, or Absent for the
\* last link, on the right.
C1_ReferenceTree ==
  (Accepted /\ FirstUnstarred(items) /\ NoDoubleStar(items))
    => NodeView(Root, Fuel) = RefLink(items, 1)

\* C1 witness: `a $B* a` after a definition of $B, parsed into the reference tree
C1_Witness ==
  /\ Accepted
  /\ pc = "complete"
  /\ freeExprIdx > 4
  /\ Len(items) = 3
  /\ items[1].star = "none" /\ items[1].conn = "AND"
  /\ items[2].star = "tight" /\ items[2].conn = "AND" /\ items[2].opd = <<"$", "B">>
  /\ items[3].star = "none"
  /\ NodeView(Root, Fuel) = RefLink(items, 1)
  /\ NodeView(Root, Fuel).right.node.left.node.op = "ZERO_OR_MORE"

\* C2: for `x* y` the root recorded for the non-terminal is the Concat node with
\* Nested((x ZERO_OR_MORE Absent)) on the left and Nested((y NO_OP Absent)) on the
\* right, and no node of the finished tree is reachable from itself.
C2_StarFirstRoot ==
  (/\ Accepted
   /\ Len(items) = 2
   /\ items[1].star \in {"tight", "spaced"} /\ items[1].conn = "AND"
   /\ items[2].star = "none" /\ items[2].conn = "NO_OP")
    => /\ NodeView(Root, Fuel) =
            [op    |-> "AND",
             left  |-> RefLeft(items[1]),
             right |-> [kind |-> "Nested",
                        node |-> [op |-> "NO_OP", left |-> RefOperand(items[2]),
                                  right |-> Absent]]]
       /\ \A i \in {Root} \cup Reachable(Root) : i \notin Reachable(i)

\* C8: whenever parse_operand returns NOTHING in the loop of parse_body, the node
\* prevExpr has operator NO_OP or ZERO_OR_MORE: the end-of-body check never fails.
C8_EndCheckHolds ==
  (pc = "loop" /\ status = "ok" /\ parse_operand(pos).err = "ok"
     /\ parse_operand(pos).type = "NOTHING")
    => LastIsClosed

(***************************************************************************)
(* Claims about names.                                                     *)
(***************************************************************************)
\* parse_body has just lexed an operand and goes on
LexedOperand == pc = "loop" /\ status = "ok" /\ opType # "NOTHING"

\* C3: the index parse_operand returns for a `$Name` token is that of the entry
\* whose name is the whole token, never of one whose name only begins with it.
C3_ExactMatch ==
  (LexedOperand /\ opType = "NON_TERMINAL") => nonterms[op].name = tok

\* the name parse_header is about to read, and the character after it
HeaderName == Bytes(pos, ScanToken(pos + 1))
AfterName == At(ScanToken(pos + 1))

HeaderStep == pc = "header" /\ pc' # "header"

Slots == 0..(MAX_NONTERMS - 1)

\* a header naming an incomplete entry reuses its index and allocates nothing
ReusesPlaceholder ==
  \A i \in 0..(currentNonterm - 1) :
    (HeaderStep /\ nonterms[i].name = HeaderName /\ ~nonterms[i].complete)
      => /\ currentNonterm' = currentNonterm
         /\ nonterms'[i].name = nonterms[i].name
         /\ nonterms'[i].idx = i
         /\ pc' = "body" => nontermIdx' = i

\* complete turns true only in the step after parse_body returned for the entry
CompleteOnlyAfterBody ==
  \A i \in Slots :
    (~nonterms[i].complete /\ nonterms'[i].complete) => (pc = "complete" /\ nontermIdx = i)

CompleteStays == \A i \in Slots : nonterms[i].complete => nonterms'[i].complete

\* the entry a body is being parsed for is not complete
DefiningIncomplete == pc \in {"body", "loop", "complete"} => ~nonterms[nontermIdx].complete

\* C5: a header that names an incomplete placeholder returns the placeholder's
\* index and allocates no slot; the entry's complete flag is false while its
\* body is parsed, turns true only once parse_body has returned for its own
\* line, and is never set back to false.
C5_ForwardReference ==
  [][ReusesPlaceholder /\ CompleteOnlyAfterBody /\ CompleteStays /\ DefiningIncomplete]_vars

\* C5 witness: `$A := $B` was accepted and the header of `$B := ...` has returned
\* the index of the placeholder that the reference in A's body points at
C5_Witness ==
  /\ pc = "body"
  /\ status = "ok"
  /\ currentLine = 2
  /\ currentNonterm = 2
  /\ nontermIdx = 1
  /\ nonterms[0].complete
  /\ ~nonterms[1].complete
  /\ exprPool[nonterms[0].expr].op1Type = "NON_TERMINAL"
  /\ exprPool[nonterms[0].expr].op1 = 1

\* a header that names a complete entry ends the run in parse_header, with
\* DuplicateDefinition unless the line ends right after the name (the check for
\* a missing definition comes first), and touches neither table
RejectsRedefinition ==
  \A i \in 0..(currentNonterm - 1) :
    (HeaderStep /\ nonterms[i].name = HeaderName /\ nonterms[i].complete)
      => /\ pc' = "halt"
         /\ status' = IF AfterName \in {NUL, NL} THEN "MissingAssignment"
                      ELSE "DuplicateDefinition"
         /\ UNCHANGED <<exprPool, freeExprIdx, nonterms, currentNonterm>>

RootKept == \A i \in Slots : nonterms[i].complete => nonterms'[i].expr = nonterms[i].expr

\* C6: a header whose name is that of a complete non-terminal ends the run with
\* DuplicateDefinition before any expression node is allocated or any root is
\* written; no body is ever parsed for a complete non-terminal and the root
\* expression of a complete non-terminal never changes.
C6_NoRedefinition ==
  [][RejectsRedefinition /\ RootKept /\ DefiningIncomplete]_vars

\* C6 witness: the second definition of a complete non-terminal was rejected
C6_Witness ==
  /\ status = "DuplicateDefinition"
  /\ pc = "halt"
  /\ currentLine = 2
  /\ \E i \in 0..(currentNonterm - 1) :
       /\ nonterms[i].complete
       /\ nonterms[i].name = Bytes(1, ScanToken(2))
       /\ freeExprIdx = 1

\* C10: every stored name is at most MAX_NONTERM_NAME long, and every write into
\* the header's buffer nontermName is at an index below its size.
C10_NamesBounded ==
  /\ \A i \in Slots : Len(nonterms[i].name) <= MAX_NONTERM_NAME
  /\ hw.nameBuf < MAX_NONTERM_NAME

(***************************************************************************)
(* Claims about terminals and the arenas.                                  *)
(***************************************************************************)
\* the character an escape sequence `@c` stands for
Unescape(c) == IF c = "_" THEN " " ELSE c

\* the escape-decoded token, as the specification defines it
RECURSIVE Decoded(_)
Decoded(t) ==
  IF t = <<>> THEN <<>>
  ELSE IF t[1] = "@" /\ Len(t) >= 2 THEN <<Unescape(t[2])>> \o Decoded(SubSeq(t, 3, Len(t)))
  ELSE <<t[1]>> \o Decoded(Tail(t))

\* the token's last byte is an escape character that opens an escape sequence
RECURSIVE OpenEscape(_)
OpenEscape(t) ==
  IF t = <<>> THEN FALSE
  ELSE IF t[1] = "@" THEN (Len(t) = 1 \/ OpenEscape(SubSeq(t, 3, Len(t))))
  ELSE OpenEscape(Tail(t))

\* C4: the null-terminated bytes stored at the offset parse_operand returns for
\* a terminal token are the escape-decoded token.
C4_StoredDecoded ==
  (LexedOperand /\ opType = "TERMINAL") => TermString(op) = Decoded(tok)

\* C9: decoding a terminal token fails with IncompleteEscapeSequence exactly
\* when the token's last byte is an escape character that opens an escape
\* sequence, whatever follows the token on the line.
C9_IncompleteEscape ==
  /\ status = "IncompleteEscapeSequence" => OpenEscape(tok)
  /\ (LexedOperand /\ opType = "TERMINAL") => ~OpenEscape(tok)

\* C7: every write to the non-terminal table, the expression arena and the
\* terminal pool (the terminating null bytes included) is inside the array.
C7_WritesInBounds ==
  /\ hw.nonterm < MAX_NONTERMS
  /\ hw.expr < MAX_NESTED_EXPRS
  /\ hw.term < MAX_TOTAL_TERM_LEN

====
